---- MODULE Spec2Model ----
(***************************************************************************)
(* A model of the mathlib drivers: the scalar field Zr, the group G1, the  *)
(* modular helpers of every driver and the Strauss-Shamir joint scalar     *)
(* multiplication of the gnark-based BLS12-381 driver.                     *)
(*                                                                         *)
(* Scaling.  The widths of the program are scaled down so that every value *)
(* fits the integers of the model checker:                                 *)
(*   a 64-bit limb of fr.Element      -> a WordBits-bit limb (4 limbs kept) *)
(*   a byte (8 bits)                  -> a ByteBits-bit digit               *)
(*   ScalarByteSize = 32 bytes        -> 8 digits (the same 4 limbs)        *)
(*   the 255-bit prime group order    -> the 15-bit prime 32749             *)
(* The group G1 has prime order, so it is the cyclic group Z_Modulus: a    *)
(* point is represented by its discrete logarithm to the base GenG1, the   *)
(* point at infinity by 0.  The arithmetic of the backend libraries        *)
(* (big.Int, fr.Element, G1Jac) is taken as documented by those libraries. *)
(***************************************************************************)
EXTENDS Integers, Naturals, Sequences, FiniteSets, TLC

WordBits == 4

NumWords == 4

ByteBits == 2

ScalarByteSize == 8

Modulus == 32749

\* bounds of the input sets
MaxSmall == 3

MaxData == 4

MaxDomain == 3

(***************************************************************************)
(* Integer helpers (math/big)                                              *)
(***************************************************************************)
RECURSIVE Pow2(_)
Pow2(n) == IF n <= 0 THEN 1 ELSE 2 * Pow2(n - 1)

Abs(x) == IF x < 0 THEN -x ELSE x

Sign(x) == IF x < 0 THEN -1 ELSE IF x = 0 THEN 0 ELSE 1

\* big.Int.BitLen: the length of |x| in bits, 0 for x = 0
RECURSIVE BitLen(_)
BitLen(x) == IF Abs(x) = 0 THEN 0 ELSE 1 + BitLen(Abs(x) \div 2)

\* big.Int.Mod: Euclidean modulus, the result is in [0, |m|)
BigMod(x, m) == x % Abs(m)

RECURSIVE Gcd(_, _)
Gcd(x, y) == IF y = 0 THEN x ELSE Gcd(y, x % y)

\* big.Int.ModInverse(g, n): the inverse in [0, n) when gcd(g, n) = 1;
\* otherwise the receiver is left unchanged (and nil is returned)
HasInverse(g, n) == Gcd(BigMod(g, n), Abs(n)) = 1

\* extended Euclid: <<g, x, y>> with x * u + y * v = g = gcd(u, v)
RECURSIVE Egcd(_, _)
Egcd(u, v) ==
    IF v = 0 THEN <<u, 1, 0>>
    ELSE LET r == Egcd(v, u % v) IN <<r[1], r[3], r[2] - (u \div v) * r[3]>>

(***************************************************************************)
(* Byte strings: big-endian sequences of digits below ByteBase             *)
(***************************************************************************)
ByteBase == Pow2(ByteBits)

\* 2^(8*ScalarByteSize) in the program: the first value that does not fit
ScalarCap == Pow2(ByteBits * ScalarByteSize)

\* big.Int.Bytes: the absolute value, big-endian, without leading zeros
RECURSIVE BigBytes(_)
BigBytes(x) ==
    IF Abs(x) = 0 THEN << >>
    ELSE Append(BigBytes(Abs(x) \div ByteBase), Abs(x) % ByteBase)

\* big.Int.SetBytes: the unsigned big-endian value of a byte string
RECURSIVE SetBytes(_)
SetBytes(bs) ==
    IF Len(bs) = 0 THEN 0
    ELSE SetBytes(SubSeq(bs, 1, Len(bs) - 1)) * ByteBase + bs[Len(bs)]

\* common.BigToBytes: the fixed-length big-endian encoding; a negative value
\* is written in two's complement; a value that needs more than
\* ScalarByteSize bytes makes the padding length negative, which panics
BigToBytes(bi) ==
    IF Abs(bi) >= ScalarCap THEN "panic"
    ELSE IF bi >= 0
         THEN [i \in 1..(ScalarByteSize - Len(BigBytes(bi))) |-> 0] \o BigBytes(bi)
         ELSE BigBytes(ScalarCap + bi)

(***************************************************************************)
(* The group G1 (prime order Modulus), as the backend libraries compute it *)
(***************************************************************************)
g1Infinity == 0

GenG1 == 1

JacAdd(P, Q) == (P + Q) % Modulus

JacDouble(P) == (2 * P) % Modulus

JacNeg(P) == (Modulus - P) % Modulus

\* G1.Mul (gnark ScalarMultiplication): defined for every integer scalar
G1_Mul(P, s) == (P * (s % Modulus)) % Modulus

\* G1.Add: the receiver becomes receiver + a
G1_Add(P, Q) == JacAdd(P, Q)

(***************************************************************************)
(* State                                                                   *)
(***************************************************************************)
VARIABLES
    pc,           \* position of the running call
    op,           \* the operation that ran
    drv,          \* the driver the call is made on
    obj,          \* the objects handed to the call (their in-memory values)
    pre,          \* the values of these objects before the call
    ret,          \* the value returned
    table,        \* JointScalarMultiplication: var table [15]G1Jac
    k,            \* JointScalarMultiplication: <<k1, k2>>
    s,            \* JointScalarMultiplication: var s [2]fr.Element
    maxBit,       \* JointScalarMultiplication: maxBit
    wi,           \* JointScalarMultiplication: the word index i
    wj,           \* JointScalarMultiplication: the window index j
    res           \* JointScalarMultiplication: the accumulator res

vars == <<pc, op, drv, obj, pre, ret, table, k, s, maxBit, wi, wj, res>>

jsmVars == <<table, k, s, maxBit, wi, wj, res>>

JsmIdle ==
    /\ table = << >>
    /\ k = << >>
    /\ s = << >>
    /\ maxBit = 0
    /\ wi = 0
    /\ wj = 0
    /\ res = g1Infinity

(***************************************************************************)
(* JointScalarMultiplication and G1.Mul2 of the gnark-based driver         *)
(***************************************************************************)
WordBase == Pow2(WordBits)

\* fr.Element.SetBigInt reduces the value into [0, Modulus)
FrSetBigInt(v) == v % Modulus

\* fr.Element.Bits: the limbs of the regular form, least significant first
FrBits(e) == [w \in 0..(NumWords - 1) |-> (e \div Pow2(WordBits * w)) % WordBase]

\* (word & mask) >> (62 - 2*j), with mask = 3 << (62 - 2*j)
Digit(word, j) == (word \div Pow2(WordBits - 2 - 2 * j)) % 4

ScalarInputs ==
    ((-MaxSmall)..MaxSmall)
        \cup {23, 35, 11111, Modulus - 1, Modulus, Modulus + 1, -(Modulus - 1),
              ScalarCap - 1, ScalarCap, -ScalarCap}

PointInputs == {g1Infinity, GenG1, 2, Modulus - 1}

InitJSM ==
    /\ pc = "start"
    /\ op = "Mul2"
    /\ drv = "gurvy"
    /\ obj \in [s1 : ScalarInputs, s2 : ScalarInputs, a1 : PointInputs, a2 : PointInputs]
    /\ pre = obj
    /\ ret = g1Infinity
    /\ JsmIdle

\* lines 1132-1168: sign normalisation and the precomputed table
PrecomputeTable(p1, p2, s1, s2) ==
    LET t0 == IF Sign(s1) = -1 THEN JacNeg(p1) ELSE p1
        t3 == IF Sign(s2) = -1 THEN JacNeg(p2) ELSE p2
        t1 == JacDouble(t0)
        t2 == JacAdd(t1, t0)
        t4 == JacAdd(t3, t0)
        t5 == JacAdd(t3, t1)
        t6 == JacAdd(t3, t2)
        t7 == JacDouble(t3)
        t8 == JacAdd(t7, t0)
        t9 == JacAdd(t7, t1)
        t10 == JacAdd(t7, t2)
        t11 == JacAdd(t7, t3)
        t12 == JacAdd(t11, t0)
        t13 == JacAdd(t11, t1)
        t14 == JacAdd(t11, t2)
    IN  [x \in 0..14 |->
            CASE x = 0 -> t0 [] x = 1 -> t1 [] x = 2 -> t2 [] x = 3 -> t3
              [] x = 4 -> t4 [] x = 5 -> t5 [] x = 6 -> t6 [] x = 7 -> t7
              [] x = 8 -> t8 [] x = 9 -> t9 [] x = 10 -> t10 [] x = 11 -> t11
              [] x = 12 -> t12 [] x = 13 -> t13 [] OTHER -> t14]

JSM_Precompute ==
    /\ pc = "start"
    /\ res' = g1Infinity
    /\ k' = << (IF Sign(obj.s1) = -1 THEN -obj.s1 ELSE obj.s1),
               (IF Sign(obj.s2) = -1 THEN -obj.s2 ELSE obj.s2) >>
    /\ table' = PrecomputeTable(obj.a1, obj.a2, obj.s1, obj.s2)
    /\ pc' = "precomputed"
    /\ UNCHANGED <<op, drv, obj, pre, ret, s, maxBit, wi, wj>>

\* hiWordIndex := (maxBit - 1) / 64; Go's integer division truncates
\* toward zero
HiWordIndex(mb) == IF mb - 1 >= 0 THEN (mb - 1) \div WordBits ELSE -((1 - mb) \div WordBits)

\* lines 1170-1178: the limbs of both scalars and the highest word
JSM_Bits ==
    /\ pc = "precomputed"
    /\ s' = << FrBits(FrSetBigInt(k[1])), FrBits(FrSetBigInt(k[2])) >>
    /\ maxBit' = (IF BitLen(k[2]) > BitLen(k[1]) THEN BitLen(k[2]) ELSE BitLen(k[1]))
    /\ wi' = HiWordIndex(maxBit')
    /\ wj' = 0
    /\ pc' = "loop"
    /\ UNCHANGED <<op, drv, obj, pre, ret, table, k, res>>

\* an index that takes b1 as the high digit
TableIndex_swapped(b1, b2) == (4 * b1 + b2) - 1

\* the index into table: (b2<<2 | b1) - 1
TableIndex(b1, b2) == (4 * b2 + b1) - 1

\* lines 1180-1192: one window; reading s[0][i] with i outside the element panics
JSM_Step ==
    /\ pc = "loop"
    /\ wi >= 0
    /\ IF wi >= NumWords
       THEN /\ pc' = "panic"
            /\ res' = JacDouble(JacDouble(res))
            /\ UNCHANGED <<wi, wj>>
       ELSE LET dbl == JacDouble(JacDouble(res))
                b1 == Digit(s[1][wi], wj)
                b2 == Digit(s[2][wi], wj)
            IN  /\ res' = (IF b1 # 0 \/ b2 # 0
                             THEN JacAdd(dbl, table[TableIndex(b1, b2)])
                             ELSE dbl)
                /\ IF wj + 1 < WordBits \div 2
                   THEN wj' = wj + 1 /\ wi' = wi
                   ELSE wj' = 0 /\ wi' = wi - 1
                /\ pc' = "loop"
    /\ UNCHANGED <<op, drv, obj, pre, ret, table, k, s, maxBit>>

\* lines 1194-1195 and G1.Mul2 lines 576-578: the result leaves the function
Mul2_Return ==
    /\ pc = "loop"
    /\ wi < 0
    /\ ret' = res
    /\ pc' = "done"
    /\ UNCHANGED <<op, drv, obj, pre, table, k, s, maxBit, wi, wj, res>>

SpecJSM == InitJSM /\ [][JSM_Precompute \/ JSM_Bits \/ JSM_Step \/ Mul2_Return]_vars

(***************************************************************************)
(* CurveBase.AddPairsOfProducts over the gnark driver's Mul2.  The call is *)
(* made twice: on (left, right, leftgen, rightgen) and then with the two   *)
(* sides swapped.  obj holds the slices, the index i of the pair whose     *)
(* Mul2 runs, the running sum, and the result of the first call.           *)
(***************************************************************************)
MaxPairs == 2

InitPairs ==
    /\ pc = "start"
    /\ op = "AddPairsOfProducts"
    /\ drv = "gurvy"
    /\ \E n \in 1..MaxPairs :
          \E ps \in [1..n -> {[l |-> a, r |-> IF opp THEN -a ELSE 2,
                                  lg |-> P, rg |-> IF same THEN P ELSE Modulus - 1] :
                                 a \in {0, 3, ScalarCap}, opp \in BOOLEAN,
                                 P \in {GenG1, 2}, same \in BOOLEAN}] :
              obj = [left |-> [i \in 1..n |-> ps[i].l], right |-> [i \in 1..n |-> ps[i].r],
                     leftgen |-> [i \in 1..n |-> ps[i].lg],
                     rightgen |-> [i \in 1..n |-> ps[i].rg],
                     i |-> 1, pass |-> 1, sum |-> g1Infinity, first |-> g1Infinity,
                     s1 |-> ps[1].l, a1 |-> ps[1].lg, s2 |-> ps[1].r, a2 |-> ps[1].rg]
    /\ pre = obj
    /\ ret = g1Infinity
    /\ JsmIdle

\* sum := leftgen[0].Mul2(...) for i = 0 and sum.Add(leftgen[i].Mul2(...))
\* after it; the Mul2 of the next pair starts
AddPairs_Add ==
    /\ pc = "done"
    /\ obj.i < Len(obj.left)
    /\ LET j == obj.i + 1
           sw == obj.pass = 2
       IN  obj' = [obj EXCEPT !.sum = IF obj.i = 1 THEN ret ELSE G1_Add(obj.sum, ret),
                              !.i = j,
                              !.s1 = IF sw THEN obj.right[j] ELSE obj.left[j],
                              !.a1 = IF sw THEN obj.rightgen[j] ELSE obj.leftgen[j],
                              !.s2 = IF sw THEN obj.left[j] ELSE obj.right[j],
                              !.a2 = IF sw THEN obj.leftgen[j] ELSE obj.rightgen[j]]
    /\ pc' = "start"
    /\ UNCHANGED <<op, drv, pre, ret, jsmVars>>

\* return sum; after the first call the call with the sides swapped starts
AddPairs_Return ==
    /\ pc = "done"
    /\ obj.i = Len(obj.left)
    /\ LET sum == IF obj.i = 1 THEN ret ELSE G1_Add(obj.sum, ret)
       IN  IF obj.pass = 1
           THEN /\ obj' = [obj EXCEPT !.first = sum, !.pass = 2, !.i = 1,
                                      !.sum = g1Infinity,
                                      !.s1 = obj.right[1], !.a1 = obj.rightgen[1],
                                      !.s2 = obj.left[1], !.a2 = obj.leftgen[1]]
                /\ pc' = "start"
                /\ ret' = ret
           ELSE /\ obj' = [obj EXCEPT !.sum = sum]
                /\ pc' = "returned"
                /\ ret' = sum
    /\ UNCHANGED <<op, drv, pre, jsmVars>>

SpecPairs ==
    InitPairs /\ [][JSM_Precompute \/ JSM_Bits \/ JSM_Step \/ Mul2_Return
                        \/ AddPairs_Add \/ AddPairs_Return]_vars

(***************************************************************************)
(* Scalars (Zr) of the three drivers                                       *)
(*   "kilic": bls12_381Zr / Bls12_381   (kilic library)                    *)
(*   "gurvy": Zr / Curve                (gnark library, pooled fr.Element) *)
(*   "amcl" : fp256bnZr / Fp256bn                                          *)
(*   "base" : common.CurveBase          (curve-level helpers only)         *)
(***************************************************************************)
Drivers == {"kilic", "gurvy", "amcl", "base"}

ZrDrivers == {"kilic", "gurvy", "amcl"}

GroupOrder == Modulus

NewZrFromInt(i) == i

\* Zr.Plus: the exact sum, not reduced
Zr_Plus(x, y) == x + y

\* Zr.Mod: the receiver becomes receiver mod a
Zr_Mod(x, y) == BigMod(x, y)

\* the product reduced with big.Int.Rem, which keeps the sign of the product
Zr_Mul_rem(x, y) == IF x * y < 0 THEN -((-(x * y)) % Modulus) ELSE (x * y) % Modulus

\* Zr.Mul: the product reduced by the curve's modulus
Zr_Mul(x, y) == BigMod(x * y, Modulus)

\* Zr.Neg: the receiver becomes its negation, not reduced
Zr_Neg(x) == -x

\* an equality that reduces both sides first
Zr_Equals_normalized(x, y) == BigMod(x, Modulus) = BigMod(y, Modulus)

\* Zr.Equals: compares the in-memory integers
Zr_Equals(x, y) == x = y

\* Zr.InvModP: big.Int.ModInverse, whose nil result is dropped
Zr_InvModP(x, p) ==
    IF HasInverse(x, p) THEN BigMod(Egcd(BigMod(x, p), Abs(p))[2], p) ELSE x

\* Zr.Clone: b.Int.SetBytes(a.Int.Bytes())
Zr_Clone(a) == SetBytes(BigBytes(a))

\* Zr.Copy: a new integer with the receiver's value
Zr_Copy(x) == x

\* Zr.Minus: the exact difference, not reduced
Zr_Minus(x, y) == x - y

bls12_381Zr_Bytes(z) == BigToBytes(z)

Zr_Bytes(x) ==
    LET target == IF Sign(x) < 0 \/ x > Modulus
                  THEN (LET t == BigMod(x, Modulus) IN IF Sign(t) < 0 THEN t + Modulus ELSE t)
                  ELSE x
    IN  BigToBytes(target)

fp256bnZr_Bytes(x) ==
    LET target == IF Sign(x) < 0 \/ x > Modulus
                  THEN (LET t == BigMod(x, Modulus) IN IF Sign(t) < 0 THEN t + Modulus ELSE t)
                  ELSE x
    IN  BigToBytes(target)

Bytes(d, x) ==
    CASE d = "kilic" -> bls12_381Zr_Bytes(x)
      [] d = "gurvy" -> Zr_Bytes(x)
      [] OTHER -> fp256bnZr_Bytes(x)

\* NewZrFromBytes: big.Int.SetBytes in every driver
NewZrFromBytes(bs) == SetBytes(bs)

(***************************************************************************)
(* Modular helpers of the drivers                                          *)
(***************************************************************************)
\* kilic driver
Bls12_381_ModAdd(x, y, n) == Zr_Mod(Zr_Plus(x, y), n)

Bls12_381_ModNeg(x, n) == n - Zr_Mod(x, n)

Bls12_381_ModSub(x, y, n) == Bls12_381_ModAdd(x, Bls12_381_ModNeg(y, n), n)

Bls12_381_ModMul(x, y, n) == Zr_Mod(x, n) * Zr_Mod(y, n)

\* gnark driver: the arithmetic of fr.Element is modulo the curve's order
FrAdd(x, y) == (x + y) % Modulus

FrMul(x, y) == (x * y) % Modulus

\* fr.Element.Exp: square and multiply, for an exponent e >= 0
RECURSIVE FrExp(_, _)
FrExp(x, e) ==
    IF e = 0 THEN 1 % Modulus
    ELSE LET h == FrExp(x, e \div 2)
             sq == FrMul(h, h)
         IN  IF e % 2 = 1 THEN FrMul(sq, x) ELSE sq

Curve_ModAdd(x, y, n) == FrAdd(FrSetBigInt(x), FrSetBigInt(y))

Curve_ModSub_swapped(x, y, n) == (FrSetBigInt(y) - FrSetBigInt(x)) % Modulus

\* a1Fr.Sub(a1Fr, a2Fr)
Curve_ModSub(x, y, n) == (FrSetBigInt(x) - FrSetBigInt(y)) % Modulus

Curve_ModMul(x, y, n) == FrMul(FrSetBigInt(x), FrSetBigInt(y))

Curve_ModNeg(x, n) == BigMod(n - x, n)

\* amcl driver
Fp256bn_ModAdd(x, y, n) == Zr_Mod(Zr_Plus(x, y), n)

Fp256bn_ModNeg(x, n) == LET r == n - x IN IF Sign(r) < 0 THEN r + Modulus ELSE r

Fp256bn_ModSub(x, y, n) == Fp256bn_ModAdd(x, Fp256bn_ModNeg(y, n), n)

Fp256bn_ModMul(x, y, n) == Zr_Mod(Zr_Mul(x, y), n)

\* common.CurveBase
CurveBase_ModAdd(x, y, n) == BigMod(x + y, n)

CurveBase_ModNeg(x, n) == BigMod(n - x, n)

CurveBase_ModSub(x, y, n) == BigMod(x - y, n)

CurveBase_ModMul(x, y, n) == BigMod(x * y, n)

ModAdd(d, x, y, n) ==
    CASE d = "kilic" -> Bls12_381_ModAdd(x, y, n)
      [] d = "gurvy" -> Curve_ModAdd(x, y, n)
      [] d = "amcl" -> Fp256bn_ModAdd(x, y, n)
      [] OTHER -> CurveBase_ModAdd(x, y, n)

ModNeg(d, x, n) ==
    CASE d = "kilic" -> Bls12_381_ModNeg(x, n)
      [] d = "gurvy" -> Curve_ModNeg(x, n)
      [] d = "amcl" -> Fp256bn_ModNeg(x, n)
      [] OTHER -> CurveBase_ModNeg(x, n)

ModSub(d, x, y, n) ==
    CASE d = "kilic" -> Bls12_381_ModSub(x, y, n)
      [] d = "gurvy" -> Curve_ModSub(x, y, n)
      [] d = "amcl" -> Fp256bn_ModSub(x, y, n)
      [] OTHER -> CurveBase_ModSub(x, y, n)

ModMul(d, x, y, n) ==
    CASE d = "kilic" -> Bls12_381_ModMul(x, y, n)
      [] d = "gurvy" -> Curve_ModMul(x, y, n)
      [] d = "amcl" -> Fp256bn_ModMul(x, y, n)
      [] OTHER -> CurveBase_ModMul(x, y, n)

\* Curve.ModAddMul of the gnark driver: sum.SetZero(); for each i,
\* a1Fr.SetBigInt(a1[i]); b1Fr.SetBigInt(b1[i]); a1Fr.Mul; sum.Add(sum, a1Fr).
\* The modulus handed in is not used
Curve_ModAddMul_last(a1, b1, m) ==
    LET RECURSIVE loop(_, _)
        loop(sum, i) ==
            IF i > Len(a1) THEN sum
            ELSE loop(FrMul(FrSetBigInt(a1[i]), FrSetBigInt(b1[i])), i + 1)
    IN  loop(0, 1)

Curve_ModAddMul(a1, b1, m) ==
    LET RECURSIVE loop(_, _)
        loop(sum, i) ==
            IF i > Len(a1) THEN sum
            ELSE loop(FrAdd(sum, FrMul(FrSetBigInt(a1[i]), FrSetBigInt(b1[i]))), i + 1)
    IN  loop(0, 1)

\* Curve.ModAddMul2: sum.SetZero(); sum += a1*c1; sum += b1*c2
Curve_ModAddMul2(a1, c1, b1, c2, m) ==
    LET sum1 == FrAdd(0, FrMul(FrSetBigInt(a1), FrSetBigInt(c1)))
    IN  FrAdd(sum1, FrMul(FrSetBigInt(b1), FrSetBigInt(c2)))

\* CurveBase.ModAddMul: sum = ModAdd(sum, ModMul(a1[i], b1[i], modulo), modulo)
\* from NewZrFromInt64(0)
CurveBase_ModAddMul(a1, b1, modulo) ==
    LET RECURSIVE loop(_, _)
        loop(sum, i) ==
            IF i > Len(a1) THEN sum
            ELSE loop(CurveBase_ModAdd(sum, CurveBase_ModMul(a1[i], b1[i], modulo), modulo),
                      i + 1)
    IN  loop(NewZrFromInt(0), 1)

CurveBase_ModAddMul2(a1, c1, b1, c2, m) ==
    CurveBase_ModAdd(CurveBase_ModMul(a1, c1, m), CurveBase_ModMul(b1, c2, m), m)

(***************************************************************************)
(* Calls on scalars: the inputs are drawn, then one operation runs         *)
(***************************************************************************)
ZrInputs ==
    ((-MaxSmall)..MaxSmall)
        \cup {11111, Modulus - 1, Modulus, Modulus + 1,
              -(Modulus - 1), -Modulus, -(Modulus + 1)}

ModInputs == {1, 2, 4, 11, Modulus}

Init ==
    /\ pc = "call"
    /\ op = "none"
    /\ drv \in Drivers
    /\ obj \in [a : ZrInputs, b : ZrInputs, m : ModInputs]
    /\ pre = obj
    /\ ret = 0
    /\ JsmIdle

Return(name, value) ==
    /\ pc' = "done"
    /\ op' = name
    /\ ret' = value
    /\ UNCHANGED <<drv, pre, jsmVars>>

Call_Bytes ==
    /\ pc = "call" /\ drv \in ZrDrivers
    /\ Return("Bytes", Bytes(drv, obj.a))
    /\ UNCHANGED obj

\* runToFroBytesTest: rback := NewZrFromBytes(r.Bytes())
Call_ToFroBytes ==
    /\ pc = "call" /\ drv \in ZrDrivers
    /\ Return("ToFroBytes", NewZrFromBytes(Bytes(drv, obj.a)))
    /\ UNCHANGED obj

\* runZrTest: rr1 := rr.Copy(); rr1.Neg(); ModAdd(rr, NewZrFromBytes(rr1.Bytes()), GroupOrder)
Call_NegToFroBytes ==
    /\ pc = "call" /\ drv \in {"gurvy", "amcl"}
    /\ LET rr1 == Zr_Neg(obj.a)
           rr11 == NewZrFromBytes(Bytes(drv, rr1))
       IN  Return("NegToFroBytes", ModAdd(drv, obj.a, rr11, GroupOrder))
    /\ UNCHANGED obj

\* Test381Compat: rk.Bytes() of the kilic driver against
\* gurvy.NewZrFromBytes(rk.Bytes()).Bytes(), then GenG1.Mul on both
Call_Compat ==
    /\ pc = "call" /\ drv = "kilic"
    /\ LET rkb == bls12_381Zr_Bytes(obj.a)
           rg == NewZrFromBytes(rkb)
       IN  Return("Compat", [rk |-> rkb, rg |-> Zr_Bytes(rg),
                             g1k |-> G1_Mul(GenG1, obj.a), g1g |-> G1_Mul(GenG1, rg)])
    /\ UNCHANGED obj

Call_ModAdd ==
    /\ pc = "call"
    /\ Return("ModAdd", ModAdd(drv, obj.a, obj.b, obj.m))
    /\ UNCHANGED obj

Call_ModSub ==
    /\ pc = "call"
    /\ Return("ModSub", ModSub(drv, obj.a, obj.b, obj.m))
    /\ UNCHANGED obj

Call_ModNeg ==
    /\ pc = "call"
    /\ Return("ModNeg", ModNeg(drv, obj.a, obj.m))
    /\ UNCHANGED obj

Call_ModMul ==
    /\ pc = "call"
    /\ Return("ModMul", ModMul(drv, obj.a, obj.b, obj.m))
    /\ UNCHANGED obj

\* runModAddSubNegTest: ModAdd(r, ModNeg(r, GroupOrder), GroupOrder)
Call_AddNeg ==
    /\ pc = "call"
    /\ Return("AddNeg", ModAdd(drv, obj.a, ModNeg(drv, obj.a, GroupOrder), GroupOrder))
    /\ UNCHANGED obj

\* runModAddSubNegTest: ModSub(ModAdd(a, b, GroupOrder), a, GroupOrder)
Call_SubAdd ==
    /\ pc = "call"
    /\ Return("SubAdd", ModSub(drv, ModAdd(drv, obj.a, obj.b, GroupOrder), obj.a, GroupOrder))
    /\ UNCHANGED obj

\* runDHTestG1: GenG1.Mul(a).Mul(b) against GenG1.Mul(ModMul(a, b, GroupOrder))
Call_DH ==
    /\ pc = "call"
    /\ Return("DH", [gab |-> G1_Mul(G1_Mul(GenG1, obj.a), obj.b),
                     gab1 |-> G1_Mul(GenG1, ModMul(drv, obj.a, obj.b, GroupOrder))])
    /\ UNCHANGED obj

\* Zr.InvModP mutates its receiver and returns nothing
Call_InvModP ==
    /\ pc = "call" /\ drv \in ZrDrivers
    /\ Return("InvModP", "void")
    /\ obj' = [obj EXCEPT !.a = Zr_InvModP(obj.a, obj.m)]

\* G1.Clone of the gnark driver: SetBytes(a.Bytes()).  G1Affine.Bytes gives
\* the compressed form: the x coordinate, which P and -P share, a flag for
\* the larger y, and a flag for the point at infinity; SetBytes decodes it.
\* The kilic and amcl drivers copy the coordinates (Set, ECP.Copy)
G1_Clone(d, P) ==
    IF d = "gurvy"
    THEN LET e == IF P = g1Infinity THEN [inf |-> TRUE, x |-> 0, ysign |-> FALSE]
                  ELSE IF P <= Modulus - P THEN [inf |-> FALSE, x |-> P, ysign |-> FALSE]
                  ELSE [inf |-> FALSE, x |-> Modulus - P, ysign |-> TRUE]
         IN  IF e.inf THEN g1Infinity
             ELSE IF e.ysign THEN Modulus - e.x ELSE e.x
    ELSE P

\* G1.Copy: Set into a new point
G1_Copy(P) == P

\* bigToMiraclBIGCore cuts the encoding into chunks of 7 bytes
ChunkBytes == 3

\* the chunks i0, i1, .. of b[0:pos], least significant first, put together
\* as FP256BN.NewBIGints does (base 2^56)
RECURSIVE BIGFromChunks(_, _)
BIGFromChunks(b, pos) ==
    IF pos <= ChunkBytes THEN SetBytes(SubSeq(b, 1, pos))
    ELSE SetBytes(SubSeq(b, pos - ChunkBytes + 1, pos))
             + Pow2(ByteBits * ChunkBytes) * BIGFromChunks(b, pos - ChunkBytes)

\* the conversion without the normalisation of lines 201-207
bigToMiraclBIGCore_unreduced(bi) == BIGFromChunks(BigToBytes(bi), ScalarByteSize)

\* bigToMiraclBIGCore: a negative value or one above the modulus is reduced
\* first, then the fixed-length encoding is cut into chunks
bigToMiraclBIGCore(bi) ==
    LET biCopy == IF Sign(bi) < 0 \/ bi > Modulus
                  THEN (LET c == BigMod(bi, Modulus) IN IF Sign(c) < 0 THEN c + Modulus ELSE c)
                  ELSE bi
    IN  BIGFromChunks(BigToBytes(biCopy), ScalarByteSize)

\* fp256bnG1.Mul: FP256BN.G1mul(P, e) for the BIG e of a
fp256bnG1_Mul(P, a) == (P * bigToMiraclBIGCore(a)) % Modulus

\* Mul of each driver
Mul(d, P, a) == IF d = "amcl" THEN fp256bnG1_Mul(P, a) ELSE G1_Mul(P, a)

\* G1.Sub: the receiver becomes receiver - a
G1_Sub(P, Q) == JacAdd(P, JacNeg(Q))

\* a negation that hands -1 to the library without normalising it
G1_Neg_raw(d, P) ==
    IF d = "amcl" THEN (P * bigToMiraclBIGCore_unreduced(-1)) % Modulus ELSE JacNeg(P)

\* G1.Neg of the gnark driver negates in place; fp256bnG1.Neg replaces the
\* point by Mul(NewZrFromInt(-1))
G1_Neg(d, P) == IF d = "amcl" THEN fp256bnG1_Mul(P, NewZrFromInt(-1)) ELSE JacNeg(P)

\* runG1Test: GS1 := GS.Copy(); GS1.Neg(); GS1.Add(GS); GS1.Add(GenG1)
Call_G1NegAdd ==
    /\ pc = "call" /\ drv \in {"gurvy", "amcl"}
    /\ \E GS \in PointInputs :
          LET neg == G1_Neg(drv, G1_Copy(GS))
              sum == G1_Add(neg, GS)
          IN  Return("G1NegAdd", [P |-> GS, neg |-> neg, sum |-> sum,
                                  plusGen |-> G1_Add(sum, GenG1)])
    /\ UNCHANGED obj

\* runG1Test: g1copy.Clone(P); g1copy.Sub(P); and g6 := GenG1.Mul(58);
\* g6.Sub(GenG1.Mul(23)) against GenG1.Mul(35)
Call_G1Sub ==
    /\ pc = "call" /\ drv \in ZrDrivers
    /\ \E P \in PointInputs :
          Return("G1Sub", [P |-> P,
                           subSelf |-> G1_Sub(G1_Clone(drv, P), P),
                           g6 |-> G1_Sub(Mul(drv, GenG1, NewZrFromInt(58)),
                                         Mul(drv, GenG1, NewZrFromInt(23))),
                           g4 |-> Mul(drv, GenG1, NewZrFromInt(35))])
    /\ UNCHANGED obj

\* NewRandomZr: rand.Int(rng, modulus) reads as many bytes as modulus - 1
\* has, clears the bits of the first byte above the bit length, and returns
\* the value when it is below modulus (<<v>>); otherwise it reads again (<< >>)
NewRandomZr(bytes) ==
    LET bitLen == BitLen(Modulus - 1)
        b == IF bitLen % ByteBits = 0 THEN ByteBits ELSE bitLen % ByteBits
        masked == [bytes EXCEPT ![1] = bytes[1] % Pow2(b)]
        v == SetBytes(masked)
    IN  IF v < Modulus THEN <<v>> ELSE << >>

\* a hash that returns the digest as it is
HashToZr_unreduced(d, data) == (data * 40503 + 977) % ScalarCap

\* HashToZr: the ScalarByteSize bytes of sha256.Sum256(data) as an integer,
\* reduced by the modulus (gnark, CurveBase) or by Mod(GroupOrder()) (kilic, amcl)
HashToZr(d, data) ==
    LET digest == [i \in 1..ScalarByteSize |->
                      (((data * 40503 + 977) % ScalarCap)
                           \div Pow2(ByteBits * (ScalarByteSize - i))) % ByteBase]
    IN  IF d \in {"gurvy", "base"} THEN BigMod(SetBytes(digest), Modulus)
        ELSE Zr_Mod(NewZrFromBytes(digest), GroupOrder)

\* runZrTest: r1.Bytes(), on a value, its negation, an unreduced sum, a
\* product and zero
Call_ZrBytes ==
    /\ pc = "call" /\ drv \in ZrDrivers
    /\ Return("ZrBytes", [val |-> Bytes(drv, obj.a),
                          neg |-> Bytes(drv, Zr_Neg(obj.a)),
                          sum |-> Bytes(drv, Zr_Plus(Zr_Plus(obj.a, obj.b), obj.b)),
                          prod |-> Bytes(drv, Zr_Mul(obj.a, obj.b)),
                          zero |-> Bytes(drv, NewZrFromInt(0))])
    /\ UNCHANGED obj

\* one read of the random source; a rejected read is followed by another
Call_NewRandomZr ==
    /\ pc = "call"
    /\ \E bytes \in {[i \in 1..((BitLen(Modulus - 1) + ByteBits - 1) \div ByteBits) |-> c] :
                        c \in 0..(ByteBase - 1)}
                    \cup {[i \in 1..ScalarByteSize |->
                               (v \div Pow2(ByteBits * (ScalarByteSize - i))) % ByteBase] :
                              v \in {1, Modulus - 1, Modulus, ScalarCap \div 2 + 5}} :
          /\ NewRandomZr(bytes) # << >>
          /\ Return("NewRandomZr", [bytes |-> bytes, v |-> NewRandomZr(bytes)[1]])
    /\ UNCHANGED obj

\* runHashTest: r := HashToZr(bytes), called twice on the same bytes
Call_HashToZr ==
    /\ pc = "call"
    /\ \E data \in 0..MaxData :
          Return("HashToZr", [data |-> data, v |-> HashToZr(drv, data),
                              again |-> HashToZr(drv, data)])
    /\ UNCHANGED obj

\* P.Mul(s) against P.Mul(s mod GroupOrder), in the gnark and amcl drivers
\* ModAddMul over the first n of the pairs (a, b), (b, b) and ModAddMul2 of
\* (a, b, b, m), by the gnark driver and by the generic helpers, with the
\* group order as the modulus
Call_ModAddMul ==
    /\ pc = "call" /\ drv = "gurvy"
    /\ \E n \in 0..2 :
          LET a1 == SubSeq(<<obj.a, obj.b>>, 1, n)
              b1 == SubSeq(<<obj.b, obj.b>>, 1, n)
          IN  Return("ModAddMul",
                     [n |-> n,
                      curve |-> Curve_ModAddMul(a1, b1, GroupOrder),
                      base |-> CurveBase_ModAddMul(a1, b1, GroupOrder),
                      curve2 |-> Curve_ModAddMul2(obj.a, obj.b, obj.b, obj.m, GroupOrder),
                      base2 |-> CurveBase_ModAddMul2(obj.a, obj.b, obj.b, obj.m, GroupOrder)])
    /\ UNCHANGED obj

Call_G1Mul ==
    /\ pc = "call" /\ drv \in {"gurvy", "amcl"}
    /\ \E P \in PointInputs :
          Return("G1Mul", [P |-> P, mul |-> Mul(drv, P, obj.a),
                           mulmod |-> Mul(drv, P, Zr_Mod(obj.a, GroupOrder))])
    /\ UNCHANGED obj

\* big.Int.Exp(x, y, m) for m > 0: 1 for y <= 0; otherwise |x|^y mod m, taken
\* from m when x is negative and y is odd
BigExp(x, y, m) ==
    IF y <= 0 THEN 1
    ELSE LET av == FrExp(Abs(x) % m, y)
         IN  IF x < 0 /\ y % 2 = 1 /\ av # 0 THEN m - av ELSE av

\* Zr.PowMod of the gnark driver: fr.SetBigInt(b); fr.Exp(fr, x)
Zr_PowMod(b, x) == FrExp(FrSetBigInt(b), x)

\* bls12_381Zr.PowMod and fp256bnZr.PowMod: new(big.Int).Exp(z, x, modulus)
PowMod(d, b, x) ==
    IF d = "gurvy" THEN Zr_PowMod(b, x) ELSE BigExp(b, x, Modulus)

\* testNotZeroAfterAdd: i4 := i1.Plus(i2); zero.Equals(i4); and Equals of a
\* value with the value moved by the modulus
Call_PlusEquals ==
    /\ pc = "call" /\ drv \in ZrDrivers
    /\ LET i4 == Zr_Plus(obj.a, obj.b)
       IN  Return("PlusEquals",
                  [sum |-> i4,
                   eqZero |-> Zr_Equals(NewZrFromInt(0), i4),
                   eqAB |-> Zr_Equals(obj.a, obj.b),
                   eqUp |-> Zr_Equals(obj.a, Zr_Plus(obj.a, GroupOrder)),
                   eqDown |-> Zr_Equals(obj.a, Zr_Minus(obj.a, GroupOrder))])
    /\ UNCHANGED obj

\* runMulTest: a.Mul(b); rr := r.Mul(r); rrr := rr.Mul(r); r3 := r.PowMod(3)
Call_Mul ==
    /\ pc = "call" /\ drv \in ZrDrivers
    /\ Return("Mul", [mul |-> Zr_Mul(obj.a, obj.b),
                      rrr |-> Zr_Mul(Zr_Mul(obj.a, obj.a), obj.a),
                      r3 |-> PowMod(drv, obj.a, 3)])
    /\ UNCHANGED obj

\* runZrTest: r1.PowMod(r2).PowMod(r3) against r1.PowMod(r3).PowMod(r2), and
\* r1.PowMod(GroupOrder - 1); the exponents are b and m
Call_PowMod ==
    /\ pc = "call" /\ drv \in ZrDrivers
    /\ obj.b >= 0
    /\ Return("PowMod", [pow |-> PowMod(drv, obj.a, obj.b),
                         a1 |-> PowMod(drv, PowMod(drv, obj.a, obj.b), obj.m),
                         a2 |-> PowMod(drv, PowMod(drv, obj.a, obj.m), obj.b),
                         euler |-> PowMod(drv, obj.a, Zr_Plus(GroupOrder, NewZrFromInt(-1)))])
    /\ UNCHANGED obj

\* runCopyCloneTest: aclone.Clone(a) (the receiver is the scalar b);
\* acopy := a.Copy(); g1 := GenG1.Mul(a); g1clone.Clone(g1); g1clone.Copy()
Call_CopyClone ==
    /\ pc = "call" /\ drv \in ZrDrivers
    /\ LET g1 == G1_Mul(GenG1, obj.a)
           g1clone == G1_Clone(drv, g1)
       IN  Return("CopyClone", [acopy |-> Zr_Copy(obj.a), g1 |-> g1,
                                g1clone |-> g1clone, g1copy |-> G1_Copy(g1clone)])
    /\ obj' = [obj EXCEPT !.b = Zr_Clone(obj.a)]

Next ==
    \/ Call_ModAddMul
    \/ Call_ZrBytes
    \/ Call_NewRandomZr
    \/ Call_HashToZr
    \/ Call_G1NegAdd
    \/ Call_G1Sub
    \/ Call_PlusEquals
    \/ Call_Mul
    \/ Call_PowMod
    \/ Call_G1Mul
    \/ Call_CopyClone
    \/ Call_Bytes
    \/ Call_ToFroBytes
    \/ Call_NegToFroBytes
    \/ Call_Compat
    \/ Call_ModAdd
    \/ Call_ModSub
    \/ Call_ModNeg
    \/ Call_ModMul
    \/ Call_AddNeg
    \/ Call_SubAdd
    \/ Call_DH
    \/ Call_InvModP

Spec == Init /\ [][Next]_vars

(***************************************************************************)
(* Hashing to G1: the kilic driver against the gnark driver                *)
(***************************************************************************)
\* domain-separation tags: 0 is the empty tag []byte{}, 1 is the tag
\* "MATHLIB_BLS12381", the others are tags a caller may pass
emptyDomain == 0

domain == 1

\* hash-to-curve of the libraries: one point per (message, tag), never the
\* point at infinity, unrelated points for different tags
HashToCurve(data, dst) == 1 + ((data * (MaxDomain + 1) + dst) % (Modulus - 1))

Bls12_381_HashToG1(data) == HashToCurve(data, domain)

Curve_HashToG1(data) == HashToCurve(data, emptyDomain)

Curve_HashToG1WithDomain(data, dst) == HashToCurve(data, dst)

\* HashToG1WithDomain of the kilic driver
Bls12_381_HashToG1WithDomain(data, dst) == HashToCurve(data, dst)

HashToG1(d, data) ==
    IF d = "kilic" THEN Bls12_381_HashToG1(data) ELSE Curve_HashToG1(data)

HashToG1WithDomain(d, data, dst) ==
    IF d = "kilic" THEN Bls12_381_HashToG1WithDomain(data, dst)
    ELSE Curve_HashToG1WithDomain(data, dst)

InitHash ==
    /\ pc = "call"
    /\ op = "none"
    /\ drv \in {"kilic", "gurvy"}
    /\ obj \in [data : 0..MaxData, domain : 0..MaxDomain]
    /\ pre = obj
    /\ ret = g1Infinity
    /\ JsmIdle

Call_HashToG1 ==
    /\ pc = "call"
    /\ Return("HashToG1", HashToG1(drv, obj.data))
    /\ UNCHANGED obj

Call_HashToG1WithDomain ==
    /\ pc = "call"
    /\ Return("HashToG1WithDomain", HashToG1WithDomain(drv, obj.data, obj.domain))
    /\ UNCHANGED obj

SpecHash == InitHash /\ [][Call_HashToG1 \/ Call_HashToG1WithDomain]_vars

(***************************************************************************)
(* Decoding of group elements: the driver constructors and the Curve       *)
(* facade above them                                                       *)
(***************************************************************************)
\* the library call under each constructor:
\*   gnark SetBytes and kilic FromBytes return an error for every malformed input;
\*   amcl ECP_fromBytes / ECP2_fromBytes / FP12_fromBytes return no error: they
\*   index past a short slice (a run-time panic), give the point at infinity for
\*   an invalid point encoding and take any bytes of the right length as an FP12
LibFromBytes(d, fn, kind, p) ==
    IF kind = "valid" THEN [st |-> "ok", el |-> <<p>>]
    ELSE IF d \in {"kilic", "gurvy"} THEN [st |-> "err", el |-> << >>]
    ELSE IF kind \in {"nil", "short"} THEN [st |-> "oob", el |-> << >>]
    ELSE IF fn = "NewGtFromBytes" THEN [st |-> "ok", el |-> <<p>>]
    ELSE [st |-> "ok", el |-> <<g1Infinity>>]

\* Curve.NewG1FromBytes .. Curve.NewGtFromBytes (gnark), Bls12_381.New*FromBytes
\* (kilic): if err != nil { panic(...) }
Curve_NewFromBytes(d, fn, kind, p) ==
    LET r == LibFromBytes(d, fn, kind, p)
    IN  IF r.st = "ok" THEN [st |-> "ok", el |-> r.el] ELSE [st |-> "panic", el |-> << >>]

\* Fp256bn.NewG1FromBytes .. Fp256bn.NewGtFromBytes: the library's result is
\* wrapped without any check
Fp256bn_NewFromBytes(fn, kind, p) ==
    LET r == LibFromBytes("amcl", fn, kind, p)
    IN  IF r.st = "oob" THEN [st |-> "panic", el |-> << >>] ELSE [st |-> "ok", el |-> r.el]

\* the facade's constructor: a panic of the driver is recovered and becomes
\* (nil, error); otherwise (element, nil)
Facade_NewFromBytes(d, fn, kind, p) ==
    LET r == IF d = "amcl" THEN Fp256bn_NewFromBytes(fn, kind, p)
             ELSE Curve_NewFromBytes(d, fn, kind, p)
    IN  IF r.st = "panic"
        THEN [driver |-> "panic", el |-> << >>, err |-> "error"]
        ELSE [driver |-> "returned", el |-> r.el, err |-> "nil"]

InitDecode ==
    /\ pc = "call"
    /\ op = "none"
    /\ drv \in ZrDrivers
    \* fn: the constructors each driver of src/ defines; kind: the inputs a
    \* decoder tells apart: nil, too short, of the right length but not the
    \* encoding of an element, and the encoding of the element p
    /\ obj \in [fn : IF drv = "kilic"
                     THEN {"NewG1FromBytes", "NewG2FromBytes", "NewGtFromBytes"}
                     ELSE {"NewG1FromBytes", "NewG2FromBytes", "NewG1FromCompressed",
                           "NewG2FromCompressed", "NewGtFromBytes"},
                kind : {"nil", "short", "invalid", "valid"},
                p : PointInputs]
    /\ pre = obj
    /\ ret = << >>
    /\ JsmIdle

Call_NewFromBytes ==
    /\ pc = "call"
    /\ Return("NewFromBytes", Facade_NewFromBytes(drv, obj.fn, obj.kind, obj.p))
    /\ UNCHANGED obj

SpecDecode == InitDecode /\ [][Call_NewFromBytes]_vars

(***************************************************************************)
(* The group order held by a driver, and the scalar GroupOrder() returns   *)
(*   obj.modulus: the modulus the driver keeps (modulusBig, c.Modulus)     *)
(*   obj.order  : the in-memory value of the scalar GroupOrder() returned  *)
(***************************************************************************)
\* the number of in-place calls made on the returned scalar
MaxMutations == 2

\* Fp256bn.GroupOrder returns &fp256bnZr{&modulusBig} and CurveBase.GroupOrder
\* returns &BaseZr{Int: c.Modulus}: the scalar IS the driver's modulus.
\* Bls12_381.GroupOrder returns a fresh integer (NewG1().Q()).
\* Curve.GroupOrder copies the big.Int struct: the copy has its own sign
\* but shares the limbs of c.Modulus.
\* the words of a non-negative value
RECURSIVE WordLen(_)
WordLen(x) == IF Abs(x) = 0 THEN 0 ELSE 1 + WordLen(Abs(x) \div WordBase)

\* a value written into the shared limbs: the low words of the old integer
\* are replaced, its length and its sign stay
LimbsOverwritten(old, v) ==
    LET n == WordLen(v)
        hi == (Abs(old) \div Pow2(WordBits * n)) * Pow2(WordBits * n)
    IN  IF WordLen(old) <= n THEN Abs(v) % Pow2(WordBits * WordLen(old))
        ELSE hi + Abs(v)

\* the driver's modulus after the returned scalar became v by an in-place
\* call; signOnly is true for Neg, which writes no limb
ModulusAfter(d, old, v, signOnly) ==
    IF d \in {"amcl", "base"} THEN {v}
    ELSE IF d = "gurvy" /\ ~signOnly THEN {old, LimbsOverwritten(old, v)}
    ELSE {old}

InitOrder ==
    /\ pc = "call"
    /\ op = "none"
    /\ drv \in Drivers
    /\ obj \in [modulus : {Modulus}, order : {0}, n : {0},
                a : {-3, 2, 11111}, b : {3, Modulus - 1}, m : ModInputs]
    /\ pre = obj
    /\ ret = << >>
    /\ JsmIdle

Call_GroupOrder ==
    /\ pc = "call"
    /\ pc' = "held"
    /\ op' = "GroupOrder"
    /\ obj' = [obj EXCEPT !.order = obj.modulus]
    /\ UNCHANGED <<drv, pre, ret, jsmVars>>

\* an in-place call on the returned scalar, which becomes v
OrderMutated(name, v, signOnly) ==
    /\ obj.n < MaxMutations
    /\ op' = name
    /\ \E mod \in ModulusAfter(drv, obj.modulus, v, signOnly) :
          obj' = [obj EXCEPT !.order = v, !.modulus = mod, !.n = obj.n + 1]
    /\ UNCHANGED <<pc, drv, pre, ret, jsmVars>>

Order_Mod ==
    /\ pc = "held"
    /\ OrderMutated("Mod", Zr_Mod(obj.order, obj.m), FALSE)

Order_Neg ==
    /\ pc = "held"
    /\ OrderMutated("Neg", Zr_Neg(obj.order), TRUE)

Order_InvModP ==
    /\ pc = "held"
    /\ OrderMutated("InvModP", Zr_InvModP(obj.order, obj.m), FALSE)

Order_Clone ==
    /\ pc = "held"
    /\ OrderMutated("Clone", Zr_Clone(obj.a), FALSE)

\* a later GroupOrder() and a later a.Mul(b)
Call_GroupOrderAgain ==
    /\ pc = "held"
    /\ pc' = "done"
    /\ ret' = [order |-> obj.modulus, mul |-> IF obj.modulus = 0 THEN << >>
                      ELSE << BigMod(obj.a * obj.b, obj.modulus) >>]
    /\ UNCHANGED <<op, drv, obj, pre, jsmVars>>

SpecOrder ==
    InitOrder /\ [][Call_GroupOrder \/ Order_Mod \/ Order_Neg \/ Order_InvModP
                        \/ Order_Clone \/ Call_GroupOrderAgain]_vars

(***************************************************************************)
(* In-place calls and the values around them                               *)
(*   x, m   : two scalars, each made by NewZrFromInt ("fresh") or returned *)
(*            by GroupOrder() ("order")                                    *)
(*   cp, sum: x.Copy() and x.Plus(m), taken before the call                *)
(*   P, Q   : two points; Pc, Pm: P.Copy() and P.Mul(23), taken before     *)
(***************************************************************************)
\* the argument m after the receiver x became v in place: two scalars that
\* GroupOrder() returned are one object (amcl) or share their limbs (gnark)
ArgAfter(d, xsrc, msrc, m, v, signOnly) ==
    IF xsrc = "order" /\ msrc = "order"
    THEN ModulusAfter(d, m, v, signOnly)
    ELSE {m}

InitFrame ==
    /\ pc = "call"
    /\ op = "none"
    /\ drv \in ZrDrivers
    /\ \E xsrc \in {"fresh", "order"}, msrc \in {"fresh", "order"} :
       \E x \in (IF xsrc = "order" THEN {GroupOrder} ELSE {-3, 0, 2, 11111}),
          m \in (IF msrc = "order" THEN {GroupOrder} ELSE {2, 4, 11}),
          P \in PointInputs, Q \in PointInputs :
            obj = [x |-> x, m |-> m, xsrc |-> xsrc, msrc |-> msrc,
                   cp |-> Zr_Copy(x), sum |-> Zr_Plus(x, m),
                   P |-> P, Q |-> Q, Pc |-> P, Pm |-> G1_Mul(P, 23)]
    /\ pre = obj
    /\ ret = << >>
    /\ JsmIdle

\* an in-place call on the scalar x, which becomes v
ScalarInPlace(name, v, signOnly) ==
    /\ \E m2 \in ArgAfter(drv, obj.xsrc, obj.msrc, obj.m, v, signOnly) :
          obj' = [obj EXCEPT !.x = v, !.m = m2]
    /\ Return(name, << >>)

Frame_Mod ==
    /\ pc = "call"
    /\ ScalarInPlace("x.Mod", Zr_Mod(obj.x, obj.m), FALSE)

Frame_Neg ==
    /\ pc = "call" /\ drv # "kilic"
    /\ ScalarInPlace("x.Neg", Zr_Neg(obj.x), TRUE)

Frame_InvModP ==
    /\ pc = "call"
    /\ ScalarInPlace("x.InvModP", Zr_InvModP(obj.x, obj.m), FALSE)

Frame_Add ==
    /\ pc = "call"
    /\ obj' = [obj EXCEPT !.P = G1_Add(obj.P, obj.Q)]
    /\ Return("P.Add", << >>)

Frame_Sub ==
    /\ pc = "call"
    /\ obj' = [obj EXCEPT !.P = G1_Sub(obj.P, obj.Q)]
    /\ Return("P.Sub", << >>)

Frame_PNeg ==
    /\ pc = "call" /\ drv # "kilic"
    /\ obj' = [obj EXCEPT !.P = G1_Neg(drv, obj.P)]
    /\ Return("P.Neg", << >>)

\* Mul, Plus, Minus and Copy build their result in a new object
Frame_Readers ==
    /\ pc = "call"
    /\ Return("readers", << Zr_Mul(obj.x, obj.m), Zr_Plus(obj.x, obj.m),
                            Zr_Minus(obj.x, obj.m), Zr_Copy(obj.x),
                            G1_Mul(obj.P, obj.x) >>)
    /\ UNCHANGED obj

SpecFrame ==
    InitFrame /\ [][Frame_Mod \/ Frame_Neg \/ Frame_InvModP \/ Frame_Add
                        \/ Frame_Sub \/ Frame_PNeg \/ Frame_Readers]_vars

(***************************************************************************)
(* Goroutines that call pooled operations of one Curve at the same time    *)
(*   obj.ppc[p]   : the position of goroutine p in its call                *)
(*   obj.e1, e2   : the pooled elements p holds (0: none)                  *)
(*   obj.free     : the elements lying in the sync.Pool                    *)
(*   obj.alloc    : the elements allocated so far by New                   *)
(*   obj.mem      : the content of every fr.Element                        *)
(***************************************************************************)
NumProcs == 2

\* the elements New may allocate in all
MaxElems == 4

Procs == 1..NumProcs

\* what each call computes when it runs alone
PooledAlone(o, x, y) ==
    CASE o = "ModAdd" -> Curve_ModAdd(x, y, GroupOrder)
      [] o = "ModMul" -> Curve_ModMul(x, y, GroupOrder)
      [] OTHER -> FrExp(FrSetBigInt(x), y)

\* sync.Pool.Get hands out an element of the pool and removes it from the pool
PoolAfterGet_keeps(free, e) == free

PoolAfterGet(free, e) == free \ {e}

InitPool ==
    /\ pc = "run"
    /\ op = "pooled"
    /\ drv = "gurvy"
    /\ \E o \in [Procs -> {"ModAdd", "ModMul", "PowMod"}], x \in [Procs -> {2, Modulus - 1}] :
          obj = [op |-> o, a |-> x, b |-> [p \in Procs |-> 3],
                 bad |-> [p \in Procs |-> "none"], calls |-> [p \in Procs |-> 1],
                 ppc |-> [p \in Procs |-> "get1"],
                 e1 |-> [p \in Procs |-> 0], e2 |-> [p \in Procs |-> 0],
                 free |-> {}, alloc |-> 0,
                 mem |-> [e \in 1..MaxElems |-> 0],
                 result |-> [p \in Procs |-> << >>]]
    /\ pre = obj
    /\ ret = << >>
    /\ JsmIdle

\* the calls each goroutine makes one after the other
MaxCalls == 2

\* no call has started; each call's operation is chosen when it starts
InitScoped ==
    /\ pc = "run"
    /\ op = "scoped"
    /\ drv = "gurvy"
    /\ obj = [op |-> [p \in Procs |-> "ModAdd"], a |-> [p \in Procs |-> p + 1],
              b |-> [p \in Procs |-> 3],
              bad |-> [p \in Procs |-> "none"], calls |-> [p \in Procs |-> 0],
              ppc |-> [p \in Procs |-> "idle"],
              e1 |-> [p \in Procs |-> 0], e2 |-> [p \in Procs |-> 0],
              free |-> {}, alloc |-> 0,
              mem |-> [e \in 1..MaxElems |-> 0],
              result |-> [p \in Procs |-> << >>]]
    /\ pre = obj
    /\ ret = << >>
    /\ JsmIdle

PoolFrame == UNCHANGED <<pc, op, drv, pre, ret, jsmVars>>

\* a goroutine calls ModAdd, ModMul or PowMod; bad names the argument that is
\* not a *Zr, so that its type assertion panics (the receiver of PowMod is a
\* *Zr by its type).  The first goroutine makes up to MaxCalls calls, the
\* others one call each
Pool_Call(p) ==
    /\ obj.ppc[p] \in {"idle", "done"}
    /\ obj.calls[p] < (IF p = 1 THEN MaxCalls ELSE 1)
    /\ \E o \in {"ModAdd", "ModMul", "PowMod"}, bd \in {"none", "a", "b"} :
          /\ o = "PowMod" => bd # "a"
          /\ obj' = [obj EXCEPT !.op[p] = o, !.bad[p] = bd,
                                !.calls[p] = obj.calls[p] + 1,
                                !.result[p] = << >>, !.ppc[p] = "get1"]
    /\ PoolFrame

\* a panic leaves the function through the Puts deferred so far, the last
\* one first
PanicExit_noDefer(held) == "done"

PanicExit(held) == IF held = 2 THEN "put2" ELSE "put1"

\* frElementPool.Put: v.SetZero() before the element goes back to the pool
frElementPool_Put_keeps(mem, e) == mem

frElementPool_Put(mem, e) == [mem EXCEPT ![e] = 0]

\* frElements.Get(): an element of the pool, or a new one (New) when the
\* pool gives none
GetElement(p, field, next) ==
    \/ \E e \in obj.free :
          obj' = [obj EXCEPT ![field][p] = e, !.free = PoolAfterGet(obj.free, e),
                             !.ppc[p] = next]
    \/ /\ obj.alloc < MaxElems
       /\ obj' = [obj EXCEPT ![field][p] = obj.alloc + 1, !.alloc = obj.alloc + 1,
                             !.ppc[p] = next]

Pool_Get1(p) ==
    /\ obj.ppc[p] = "get1"
    /\ GetElement(p, "e1", "set1")
    /\ PoolFrame

\* a1Fr.SetBigInt(&a1.Int)
Pool_Set1(p) ==
    /\ obj.ppc[p] = "set1"
    /\ obj' = IF obj.bad[p] = "a"
              THEN [obj EXCEPT !.ppc[p] = PanicExit(1)]
              ELSE [obj EXCEPT !.mem[obj.e1[p]] = FrSetBigInt(obj.a[p]),
                               !.ppc[p] = IF obj.op[p] = "PowMod" THEN "op" ELSE "get2"]
    /\ PoolFrame

Pool_Get2(p) ==
    /\ obj.ppc[p] = "get2"
    /\ GetElement(p, "e2", "set2")
    /\ PoolFrame

\* a2Fr.SetBigInt(&b1.Int)
Pool_Set2(p) ==
    /\ obj.ppc[p] = "set2"
    /\ obj' = IF obj.bad[p] = "b"
              THEN [obj EXCEPT !.ppc[p] = PanicExit(2)]
              ELSE [obj EXCEPT !.mem[obj.e2[p]] = FrSetBigInt(obj.b[p]), !.ppc[p] = "op"]
    /\ PoolFrame

\* a1Fr.Add(a1Fr, a2Fr) / a1Fr.Mul(a1Fr, a2Fr) / fr.Exp(*fr, &x.Int)
Pool_Op(p) ==
    /\ obj.ppc[p] = "op"
    /\ LET v1 == obj.mem[obj.e1[p]]
           v == CASE obj.op[p] = "ModAdd" -> FrAdd(v1, obj.mem[obj.e2[p]])
                  [] obj.op[p] = "ModMul" -> FrMul(v1, obj.mem[obj.e2[p]])
                  [] OTHER -> FrExp(v1, obj.b[p])
       IN  obj' = IF obj.op[p] = "PowMod" /\ obj.bad[p] = "b"
                  THEN [obj EXCEPT !.ppc[p] = PanicExit(1)]
                  ELSE [obj EXCEPT !.mem[obj.e1[p]] = v, !.ppc[p] = "res"]
    /\ PoolFrame

\* a1Fr.BigInt(&res.Int); return res: the deferred Puts run after it
Pool_Res(p) ==
    /\ obj.ppc[p] = "res"
    /\ obj' = [obj EXCEPT !.result[p] = << obj.mem[obj.e1[p]] >>,
                          !.ppc[p] = IF obj.op[p] = "PowMod" THEN "put1" ELSE "put2"]
    /\ PoolFrame

\* defer frElements.Put(a2Fr): the last defer runs first
Pool_Put2(p) ==
    /\ obj.ppc[p] = "put2"
    /\ obj' = [obj EXCEPT !.mem = frElementPool_Put(obj.mem, obj.e2[p]),
                          !.free = obj.free \cup {obj.e2[p]},
                          !.e2[p] = 0, !.ppc[p] = "put1"]
    /\ PoolFrame

\* defer frElements.Put(a1Fr)
Pool_Put1(p) ==
    /\ obj.ppc[p] = "put1"
    /\ obj' = [obj EXCEPT !.mem = frElementPool_Put(obj.mem, obj.e1[p]),
                          !.free = obj.free \cup {obj.e1[p]},
                          !.e1[p] = 0, !.ppc[p] = "done"]
    /\ PoolFrame

SpecPool ==
    InitPool
      /\ [][\E p \in Procs :
              \/ Pool_Get1(p) \/ Pool_Set1(p) \/ Pool_Get2(p) \/ Pool_Set2(p)
              \/ Pool_Op(p) \/ Pool_Res(p) \/ Pool_Put2(p) \/ Pool_Put1(p)]_vars

\* goroutines that make one call after the other, some of them panicking
SpecScoped ==
    InitScoped
      /\ [][\E p \in Procs :
              \/ Pool_Call(p)
              \/ Pool_Get1(p) \/ Pool_Set1(p) \/ Pool_Get2(p) \/ Pool_Set2(p)
              \/ Pool_Op(p) \/ Pool_Res(p) \/ Pool_Put2(p) \/ Pool_Put1(p)]_vars

(***************************************************************************)
(* Pairings.  The target field's multiplicative group is the product of    *)
(* the order-Modulus subgroup Gt and a part that the final exponentiation  *)
(* removes; an element is [e, c]: e the exponent of FExp(e(GenG2, GenG1)), *)
(* c the removed part.  A Miller loop fixes e and leaves c to the library. *)
(***************************************************************************)

CofactorOrder == 3

RECURSIVE MillerExponent(_, _)
MillerExponent(P, Q) ==
    IF P = << >> THEN 0
    ELSE (((Head(P) * Head(Q)) % Modulus) + MillerExponent(Tail(P), Tail(Q))) % Modulus

\* MillerLoop(P []G1Affine, Q []G2Affine), Ate and Ate2: the product of the
\* Miller functions of the pairs (P[i], Q[i])
MillerLoop(P, Q, c) == [e |-> MillerExponent(P, Q), c |-> c]

\* FinalExponentiation / Fexp: removes the part outside the subgroup
FinalExponentiation(z) == [e |-> z.e, c |-> 0]

Gt_Mul(g, a) == [e |-> (g.e + a.e) % Modulus, c |-> (g.c + a.c) % CofactorOrder]

\* Engine.AddPair ... Engine.Result of the kilic library is the Miller loop
\* of the added pairs followed by the final exponentiation
Pairing(d, p2, p1, c) ==
    IF d = "kilic" THEN FinalExponentiation(MillerLoop(<<p1>>, <<p2>>, c))
    ELSE MillerLoop(<<p1>>, <<p2>>, c)

\* a batched pairing that pairs p2a with p1b and p2b with p1a
Pairing2_crossed(d, p2a, p2b, p1a, p1b, c) ==
    IF d = "kilic" THEN FinalExponentiation(MillerLoop(<<p1b, p1a>>, <<p2a, p2b>>, c))
    ELSE MillerLoop(<<p1b, p1a>>, <<p2a, p2b>>, c)

Pairing2(d, p2a, p2b, p1a, p1b, c) ==
    IF d = "kilic" THEN FinalExponentiation(MillerLoop(<<p1a, p1b>>, <<p2a, p2b>>, c))
    ELSE MillerLoop(<<p1a, p1b>>, <<p2a, p2b>>, c)

FExp(d, a) == IF d = "kilic" THEN a ELSE FinalExponentiation(a)

InitPairing ==
    /\ pc = "call"
    /\ op = "none"
    /\ drv \in ZrDrivers
    /\ obj \in [p2a : {0, 1, 2, Modulus - 1}, p2b : {0, 1, 2, Modulus - 1}, p1a : PointInputs, p1b : PointInputs]
    /\ pre = obj
    /\ ret = << >>
    /\ JsmIdle

\* runPairingTest: tt1 := FExp(Pairing2(...)); tt2 := FExp(Pairing(p2a, p1a));
\* tt3 := FExp(Pairing(p2b, p1b)); tt2.Mul(tt3)
Call_Pairing2 ==
    /\ pc = "call"
    /\ \E c1, c2, c3 \in 0 .. (CofactorOrder - 1) :
          LET raw == Pairing2(drv, obj.p2a, obj.p2b, obj.p1a, obj.p1b, c1)
              tt2 == FExp(drv, Pairing(drv, obj.p2a, obj.p1a, c2))
              tt3 == FExp(drv, Pairing(drv, obj.p2b, obj.p1b, c3))
          IN  Return("Pairing2", [raw |-> raw, tt1 |-> FExp(drv, raw),
                                  tt2 |-> Gt_Mul(tt2, tt3),
                                  rawMul |-> Gt_Mul(Pairing(drv, obj.p2a, obj.p1a, c2),
                                                    Pairing(drv, obj.p2b, obj.p1b, c3))])
    /\ UNCHANGED obj

SpecPairing == InitPairing /\ [][Call_Pairing2]_vars

(***************************************************************************)
(* Properties                                                              *)
(***************************************************************************)

\* C1: for all integer scalars s1, s2 and all points A, B (A = B included)
\* A.Mul2(s1, B, s2) completes and equals A.Mul(s1) followed by
\* Add(B.Mul(s2)), and Mul2 changes neither A nor B.
C1_Mul2IsMulThenAdd ==
    /\ pc # "panic"
    /\ pc = "done" =>
          /\ ret = G1_Add(G1_Mul(pre.a1, pre.s1), G1_Mul(pre.a2, pre.s2))
          /\ obj = pre

\* C2: with the same point for both bases, A.Mul2(s1, A, s2) completes and
\* equals A.Mul(ModAdd(s1, s2, GroupOrder)), for all scalars s1, s2.
C2_SamePointIsModularSum ==
    (pre.a1 = pre.a2 /\ pc \in {"done", "panic"}) =>
        /\ pc = "done"
        /\ ret = G1_Mul(pre.a1, Curve_ModAdd(pre.s1, pre.s2, GroupOrder))

\* C3: Bytes() encodes the canonical residue of the in-memory value v, for
\* every v (negative, equal to the modulus, larger): the encoded integer is
\* v mod modulus, below the modulus, and v itself is left unchanged.
C3_BytesCanonical ==
    (pc = "done" /\ op = "Bytes") =>
        /\ ret # "panic"
        /\ SetBytes(ret) = pre.a % Modulus
        /\ SetBytes(ret) < Modulus
        /\ obj = pre

\* C4: NewZrFromBytes(s.Bytes()) Equals s normalized into [0, modulus), and
\* ModAdd(r, NewZrFromBytes(n.Bytes()), GroupOrder) Equals 0 for n = -r.
C4_ScalarRoundTrip ==
    /\ (pc = "done" /\ op = "ToFroBytes") => Zr_Equals(ret, pre.a % Modulus)
    /\ (pc = "done" /\ op = "NegToFroBytes") => Zr_Equals(ret, NewZrFromInt(0))

\* C5: the kilic and the gnark driver serialize the same value to the same
\* bytes: gurvy.NewZrFromBytes(rk.Bytes()).Bytes() = rk.Bytes() for every
\* scalar value, and GenG1.Mul gives the same point in both.
C5_CrossDriverBytes ==
    (pc = "done" /\ op = "Compat") =>
        /\ ret.rg = ret.rk
        /\ ret.g1g = ret.g1k

\* C6: HashToG1(data) is the same point in the kilic and in the gnark
\* driver for every message, and HashToG1WithDomain(data, domain) uses the
\* caller's tag in both.
C6_CrossDriverHash ==
    /\ (pc = "done" /\ op = "HashToG1") =>
          ret = HashToG1("kilic", pre.data) /\ ret = HashToG1("gurvy", pre.data)
    /\ (pc = "done" /\ op = "HashToG1WithDomain") =>
          ret = HashToCurve(pre.data, pre.domain)

\* C7: in every driver ModAdd(a, b, m) is (a + b) mod m, a value in [0, m),
\* for every modulus m > 0, and a, b, m are unchanged.
C7_ModAddReducesByM ==
    (pc = "done" /\ op = "ModAdd") =>
        /\ ret = (pre.a + pre.b) % pre.m
        /\ ret \in 0..(pre.m - 1)
        /\ obj = pre

\* C8: in every driver ModMul(a, b, m) is (a * b) mod m, a value in [0, m),
\* for every modulus m > 0, a and b are unchanged, and
\* GenG1.Mul(a).Mul(b) Equals GenG1.Mul(ModMul(a, b, GroupOrder)).
C8_ModMulReduced ==
    /\ (pc = "done" /\ op = "ModMul") =>
          /\ ret = (pre.a * pre.b) % pre.m
          /\ ret \in 0..(pre.m - 1)
          /\ obj = pre
    /\ (pc = "done" /\ op = "DH") => ret.gab = ret.gab1

\* C9: for r, a, b in [0, GroupOrder): ModAdd(r, ModNeg(r, GroupOrder),
\* GroupOrder) Equals 0 and ModSub(ModAdd(a, b, GroupOrder), a, GroupOrder)
\* Equals b, in every driver.
C9_AddNegSubLaws ==
    (pc = "done" /\ pre.a \in 0..(GroupOrder - 1) /\ pre.b \in 0..(GroupOrder - 1)) =>
        /\ op = "AddNeg" => Zr_Equals(ret, NewZrFromInt(0))
        /\ op = "SubAdd" => Zr_Equals(ret, pre.b)

\* the gnark driver has subtracted a = GroupOrder - 1 again from a + b
C9_Witness ==
    /\ pc = "done" /\ op = "SubAdd" /\ drv = "gurvy"
    /\ pre.a = GroupOrder - 1 /\ pre.b = 11111
    /\ ret = 11111

\* C10: InvModP(m) ends with an error whenever the receiver has no inverse
\* modulo m, and otherwise the receiver becomes its inverse in [0, m).
C10_InvModPFailsWithoutInverse ==
    (pc = "done" /\ op = "InvModP") =>
        IF HasInverse(pre.a, pre.m)
        THEN /\ obj.a \in 0..(pre.m - 1)
             /\ (obj.a * pre.a) % pre.m = 1 % pre.m
        ELSE ret = "error"

\* C11: a decoding constructor given malformed input (nil, wrong length,
\* invalid encoding) does not crash: it returns a nil element together with
\* an error, and never an element.
C11_DecodingFailsWithError ==
    (pc = "done" /\ op = "NewFromBytes" /\ pre.kind # "valid") =>
        /\ ret.driver # "panic"
        /\ ret.el = << >>
        /\ ret.err = "error"

\* C12: the group order of a curve never changes: after any in-place calls
\* (Mod, Neg, InvModP, Clone) on the scalar returned by GroupOrder(), a later
\* GroupOrder() returns the original modulus and Mul reduces against it.
C12_GroupOrderImmutable ==
    /\ obj.modulus = pre.modulus
    /\ pc = "done" =>
          /\ ret.order = Modulus
          /\ ret.mul = << BigMod(pre.a * pre.b, Modulus) >>

\* C13: an in-place call (Mod, Neg, InvModP on a scalar; Add, Sub, Neg on a
\* point) changes only its receiver: the arguments m and Q and the values
\* taken from the receiver before (Copy, Plus, Mul) keep their value, and
\* Mul, Plus, Minus and Copy change nothing.
C13_OnlyReceiverChanges ==
    pc = "done" =>
        /\ obj.m = pre.m /\ obj.cp = pre.cp /\ obj.sum = pre.sum
        /\ obj.Q = pre.Q /\ obj.Pc = pre.Pc /\ obj.Pm = pre.Pm
        /\ op = "readers" => obj = pre

\* C14: Copy and Clone preserve the value: after z.Clone(a), z Equals a, and
\* a.Copy() Equals a, for every scalar a whatever its sign or magnitude, and
\* for every point.
C14_CopyClonePreserve ==
    (pc = "done" /\ op = "CopyClone") =>
        /\ Zr_Equals(obj.b, pre.a)
        /\ Zr_Equals(ret.acopy, pre.a)
        /\ ret.g1clone = ret.g1 /\ ret.g1copy = ret.g1

\* C15: goroutines calling pooled operations on one Curve at the same time:
\* under every interleaving no pooled element is held by two calls at once,
\* and every call returns what it returns when it runs alone.
C15_ConcurrentPoolSafe ==
    /\ \A p \in Procs : \A q \in Procs \ {p} :
          ({obj.e1[p], obj.e2[p]} \cap {obj.e1[q], obj.e2[q]}) \ {0} = {}
    /\ \A p \in Procs :
          obj.result[p] # << >> =>
              obj.result[p] = << PooledAlone(obj.op[p], obj.a[p], obj.b[p]) >>

\* a ModMul and a ModAdd are in flight together: both have computed their
\* results and each still holds its two pooled elements
C15_Witness ==
    /\ obj.op[1] = "ModMul" /\ obj.op[2] = "ModAdd"
    /\ obj.ppc[1] = "put2" /\ obj.ppc[2] = "put2"
    /\ obj.result[1] = << FrMul(obj.a[1], 3) >>
    /\ obj.result[2] = << FrAdd(obj.a[2], 3) >>
    /\ Cardinality({obj.e1[1], obj.e2[1], obj.e1[2], obj.e2[2]} \ {0}) = 4

C17_EqualsUnreduced ==
    (pc = "done" /\ op = "PlusEquals") =>
        /\ ret.sum = pre.a + pre.b
        /\ ret.eqZero = (pre.a + pre.b = 0)
        /\ ret.eqAB = (pre.a = pre.b)
        /\ ~ret.eqUp /\ ~ret.eqDown

\* (modulus - 1).Plus(1) is the modulus itself and is not Equal to zero
C17_Witness ==
    /\ pc = "done" /\ op = "PlusEquals"
    /\ pre.a = GroupOrder - 1 /\ pre.b = 1
    /\ ret.sum = GroupOrder /\ ~ret.eqZero

\* the power a^e mod Modulus by repeated multiplication, for a small e
RECURSIVE SmallPower(_, _)
SmallPower(a, e) == IF e = 0 THEN 1 ELSE ((a % Modulus) * SmallPower(a, e - 1)) % Modulus

\* C18: a.Mul(b) is in [0, modulus) and congruent to a*b, for every in-memory
\* a and b; a.PowMod(x) is in [0, modulus) and congruent to a^x for x >= 0;
\* r.Mul(r).Mul(r) Equals r.PowMod(3), the two orders of PowMod agree, and
\* r.PowMod(GroupOrder - 1) Equals 1 for r not congruent to 0.
C18_MulPowModReduced ==
    /\ (pc = "done" /\ op = "Mul") =>
          /\ ret.mul \in 0..(Modulus - 1)
          /\ (ret.mul - pre.a * pre.b) % Modulus = 0
          /\ Zr_Equals(ret.rrr, ret.r3)
    /\ (pc = "done" /\ op = "PowMod") =>
          /\ ret.pow \in 0..(Modulus - 1)
          /\ pre.b <= MaxSmall => ret.pow = SmallPower(pre.a, pre.b)
          /\ Zr_Equals(ret.a1, ret.a2)
          /\ pre.a % Modulus # 0 => Zr_Equals(ret.euler, NewZrFromInt(1))

\* the negative, unreduced value -(modulus + 1) was multiplied by 3
C18_Witness ==
    /\ pc = "done" /\ op = "Mul"
    /\ pre.a = -(GroupOrder + 1) /\ pre.b = 3
    /\ ret.mul = GroupOrder - 3

\* C19: for every G1 point P, a copy of P negated with Neg() and then
\* Add(P) is the point at infinity, and adding GenG1 to it gives GenG1;
\* P.Sub(P) is the point at infinity; GenG1.Mul(58).Sub(GenG1.Mul(23))
\* Equals GenG1.Mul(35) and is not the point at infinity.
C19_AdditiveInverse ==
    /\ (pc = "done" /\ op = "G1NegAdd") =>
          /\ ret.sum = g1Infinity
          /\ ret.plusGen = GenG1
    /\ (pc = "done" /\ op = "G1Sub") =>
          /\ ret.subSelf = g1Infinity
          /\ ret.g6 = ret.g4
          /\ ret.g6 # g1Infinity

\* the amcl driver negated 2*GenG1 by multiplying with -1 and added it back
C19_Witness ==
    /\ pc = "done" /\ op = "G1NegAdd" /\ drv = "amcl"
    /\ ret.P = 2 /\ ret.neg = Modulus - 2
    /\ ret.sum = g1Infinity

\* C20: in every driver, Pairing2(p2a, p2b, p1a, p1b) pairs p2a with p1a and
\* p2b with p1b: FExp(Pairing2(p2a, p2b, p1a, p1b)) Equals
\* FExp(Pairing(p2a, p1a)) multiplied by FExp(Pairing(p2b, p1b)), also in
\* the driver whose FExp is the identity.
C20_BatchedPairing ==
    (pc = "done" /\ op = "Pairing2") =>
        /\ ret.tt1 = ret.tt2
        /\ ret.tt1.e = (((obj.p2a * obj.p1a) % Modulus)
                        + ((obj.p2b * obj.p1b) % Modulus)) % Modulus

\* the kilic driver, whose FExp is the identity, paired two distinct pairs
\* whose crossed pairing has another value
C20_Witness ==
    /\ pc = "done" /\ op = "Pairing2" /\ drv = "kilic"
    /\ obj.p2a = 2 /\ obj.p1a = 2 /\ obj.p2b = 1 /\ obj.p1b = Modulus - 1
    /\ ret.tt1 = [e |-> 3, c |-> 0]
    /\ ret.tt1 = ret.tt2

\* the sum over i of leftgen[i].Mul(left[i]) + rightgen[i].Mul(right[i])
RECURSIVE SumOfPairs(_, _)
SumOfPairs(o, n) ==
    IF n = 0 THEN g1Infinity
    ELSE G1_Add(SumOfPairs(o, n - 1),
                G1_Add(G1_Mul(o.leftgen[n], o.left[n]), G1_Mul(o.rightgen[n], o.right[n])))

\* C21: for equal-length inputs of length n >= 1, AddPairsOfProducts
\* completes and returns the sum over i of leftgen[i].Mul2(left[i],
\* rightgen[i], right[i]); swapping (left, leftgen) with (right, rightgen)
\* gives the same result; the result is the point at infinity when every
\* scalar is zero and when right[i] = -left[i] with rightgen[i] =
\* leftgen[i]; the slices and their elements are unchanged.
C21_AddPairsOfProducts ==
    /\ pc # "panic"
    /\ pc = "returned" =>
          /\ obj.first = SumOfPairs(pre, Len(pre.left))
          /\ ret = obj.first
          /\ (\A i \in 1..Len(pre.left) : pre.left[i] = 0 /\ pre.right[i] = 0)
                => obj.first = g1Infinity
          /\ (\A i \in 1..Len(pre.left) :
                 pre.right[i] = -pre.left[i] /\ pre.rightgen[i] = pre.leftgen[i])
                => obj.first = g1Infinity
          /\ <<obj.left, obj.right, obj.leftgen, obj.rightgen>>
                = <<pre.left, pre.right, pre.leftgen, pre.rightgen>>

\* C22: every scalar NewRandomZr returns, whatever bytes the random source
\* produced, and every scalar HashToZr returns, whatever the input, has an
\* in-memory value in [0, GroupOrder); HashToZr of the same data is the
\* same scalar.
C22_ReducedConstructors ==
    (pc = "done" /\ op \in {"NewRandomZr", "HashToZr"}) =>
        /\ ret.v >= 0 /\ ret.v < GroupOrder
        /\ op = "HashToZr" => ret.again = ret.v

\* the kilic driver hashed data whose digest is above the group order
C22_Witness ==
    /\ pc = "done" /\ op = "HashToZr" /\ ret.data = 1 /\ drv = "kilic"
    /\ ret.v = 41480 - Modulus /\ ret.again = ret.v

C25_LoopInvariant ==
    LET Ap == IF pre.s1 >= 0 THEN pre.a1 ELSE JacNeg(pre.a1)
        Bp == IF pre.s2 >= 0 THEN pre.a2 ELSE JacNeg(pre.a2)
        hi == HiWordIndex(maxBit)
        left == (wi * WordBits) + (WordBits - 2 * wj)
    IN  /\ pc # "panic"
        /\ (pc = "loop" /\ wi >= 0) =>
              res = JacAdd(G1_Mul(Ap, Abs(pre.s1) \div Pow2(left)),
                           G1_Mul(Bp, Abs(pre.s2) \div Pow2(left)))
        /\ (pc = "loop" /\ wi < 0) \/ pc = "done" =>
              res = JacAdd(G1_Mul(Ap, Abs(pre.s1)), G1_Mul(Bp, Abs(pre.s2)))

\* C26: JointScalarMultiplication never reads outside the 4-word scalar
\* representation: for every pair of scalars, of any bit length, the word
\* index hiWordIndex = (maxBit - 1) / 64 lies in 0..3, no read panics, and
\* the words processed represent the integers |s1|, |s2| from which maxBit
\* was computed.
C26_WordIndexInRange ==
    /\ pc # "panic"
    /\ pc \in {"loop", "done"} =>
          /\ HiWordIndex(maxBit) \in 0..(NumWords - 1)
          /\ wi < NumWords
          /\ \A n \in 1..2 :
                k[n] = Abs(IF n = 1 THEN pre.s1 ELSE pre.s2)
                /\ k[n] = (s[n][0] + WordBase * s[n][1])
                          + Pow2(2 * WordBits) * (s[n][2] + WordBase * s[n][3])

\* C27: in every driver ModNeg(a, m) returns the canonical residue
\* (-a) mod m, a value in [0, m), for every scalar a: for a = 0 (the result
\* is 0), a >= m and negative a; a and m are unchanged.
C27_ModNegCanonical ==
    (pc = "done" /\ op = "ModNeg") =>
        /\ ret = BigMod(-pre.a, pre.m)
        /\ ret >= 0 /\ ret < pre.m
        /\ obj = pre

\* C28: every element a pooled operation takes with Get is put back before
\* the operation returns, also when a type assertion on an argument panics:
\* a goroutine that is not inside a call holds no element, every allocated
\* element is either in the pool or held by exactly one call, an element a
\* call is working with is not in the pool, and when no call is running
\* every allocated element is in the pool.
C28_ScopedCheckout ==
    LET held(p) == {obj.e1[p], obj.e2[p]} \ {0}
        allHeld == UNION {held(p) : p \in Procs}
    IN  /\ \A p \in Procs : obj.ppc[p] \in {"idle", "done"} => held(p) = {}
        /\ \A p \in Procs : \A q \in Procs \ {p} : held(p) \cap held(q) = {}
        /\ obj.free \cap allHeld = {}
        /\ obj.free \cup allHeld = 1..obj.alloc
        /\ \A p \in Procs :
              /\ obj.ppc[p] \in {"set1", "get2", "set2", "op", "res", "put2", "put1"}
                    => obj.e1[p] \in 1..obj.alloc
              /\ obj.ppc[p] \in {"set2", "put2"} => obj.e2[p] \in 1..obj.alloc
              /\ obj.e1[p] # 0 => obj.e2[p] # obj.e1[p]
        /\ (\A p \in Procs : obj.ppc[p] \in {"idle", "done"}) => obj.free = 1..obj.alloc

\* the first goroutine's second call was a ModMul whose second argument was
\* not a *Zr: it panicked while holding two elements, returned nothing, and
\* both elements are back in the pool
C28_Witness ==
    /\ obj.calls[1] = 2 /\ obj.op[1] = "ModMul" /\ obj.bad[1] = "b"
    /\ obj.ppc[1] = "done" /\ obj.result[1] = << >>
    /\ \A p \in Procs : obj.ppc[p] \in {"idle", "done"}
    /\ obj.alloc = 2 /\ obj.free = {1, 2}

\* C29: every element in the frElements pool is zero, and so is every
\* element New has yet to create, so the element Get has just handed out is
\* zero; Put is never reached with nil; and every call that completes
\* returns what it returns when it runs alone, whatever the elements it
\* borrowed held in the calls before.
C29_PoolContentZero ==
    /\ \A e \in obj.free \cup ((obj.alloc + 1)..MaxElems) : obj.mem[e] = 0
    /\ \A p \in Procs :
          /\ obj.ppc[p] = "set1" => obj.mem[obj.e1[p]] = 0
          /\ obj.ppc[p] = "set2" => obj.mem[obj.e2[p]] = 0
          /\ obj.ppc[p] = "put1" => obj.e1[p] # 0
          /\ obj.ppc[p] = "put2" => obj.e2[p] # 0
          /\ obj.result[p] # << >> =>
                obj.result[p] = << PooledAlone(obj.op[p], obj.a[p], obj.b[p]) >>

\* the first goroutine's second call, a PowMod, has computed 2^3 in the one
\* element allocated so far, which its first call had used and put back
C29_Witness ==
    /\ obj.calls[1] = 2 /\ obj.op[1] = "PowMod" /\ obj.bad[1] = "none"
    /\ obj.ppc[1] = "put1" /\ obj.result[1] = << 8 >>
    /\ obj.alloc = 1 /\ obj.e1[1] = 1 /\ obj.mem[1] = 8
    /\ obj.free = {}

\* C30: with the group order as the modulus the gnark driver's ModAddMul
\* returns what CurveBase.ModAddMul returns, the sum of the products
\* a[i]*b[i] reduced into [0, GroupOrder), for negative and unreduced inputs
\* and for the empty list, where it is 0; ModAddMul2(a, c1, b, c2, m) returns
\* ModAdd(ModMul(a, c1, m), ModMul(b, c2, m), m); the inputs are unchanged.
C30_PooledAgreesWithGeneric ==
    (pc = "done" /\ op = "ModAddMul") =>
        /\ ret.curve = ret.base
        /\ ret.curve \in 0..(GroupOrder - 1)
        /\ ret.n = 0 => ret.curve = 0
        /\ ret.n = 1 => (ret.curve - (obj.a * obj.b)) % GroupOrder = 0
        /\ ret.n = 2 =>
              (ret.curve - (((obj.a * obj.b) % GroupOrder) + ((obj.b * obj.b) % GroupOrder)))
                  % GroupOrder = 0
        /\ ret.curve2 = ret.base2
        /\ ret.curve2 =
              ModAdd("base", ModMul("base", obj.a, obj.b, GroupOrder),
                     ModMul("base", obj.b, obj.m, GroupOrder), GroupOrder)
        /\ obj = pre

\* a = -2 and b = GroupOrder + 1: the two products are -2 and 1, and both
\* helpers return GroupOrder - 1
C30_Witness ==
    /\ pc = "done" /\ op = "ModAddMul"
    /\ obj.a = -2 /\ obj.b = Modulus + 1 /\ obj.m = 4
    /\ ret.n = 2
    /\ ret.curve = Modulus - 1 /\ ret.base = Modulus - 1
    /\ ret.curve2 = 2 /\ ret.base2 = 2

====
